---- MODULE Spec2Model ----
(***************************************************************************)
(* Booking & inventory reservation engine of Airbnb-Lite.                  *)
(*                                                                         *)
(* Every HTTP request runs in its own database session (get_db): the       *)
(* handler's SELECTs are separate await points that each see the data      *)
(* committed so far, its writes are flushed as UPDATE/INSERT statements    *)
(* with the values computed from the objects it loaded, and they become    *)
(* visible to the other requests together, at the commit that ends the     *)
(* request.  A process of the model is one request slot; its steps are the *)
(* reads of the handler and its commit.                                    *)
(***************************************************************************)
EXTENDS Integers, Sequences, FiniteSets, TLC

\* ---------------------------------------------------------------- bounds
NProcs      == 2     \* requests in flight at the same time
MaxDate     == 2     \* calendar dates 1..MaxDate carry inventory
MaxBookings == 2     \* bookings ever created
MaxEdits    == 1     \* administrative inventory edits ever started
MaxCount    == 2     \* largest rooms_count / available_count / total_count
MaxGuests   == 3     \* rows of the guests table

Procs   == 1..NProcs
Dates   == 1..MaxDate
Today   == 1
Counts  == 0..MaxCount
Prices  == {1, 2}
TxnIds  == {1, 2}
Times   == {1}
Reasons == {"changed plans"}
\* the amount and the currency a webhook payload states
WebhookAmounts == {1, 2}
Currencies == {"USD", "EUR"}
Unset   == -1

\* guests 1..MaxGuests are in the guests table; the last one was registered by
\* another user than the one who sends the requests
Guests    == 1..MaxGuests
OwnGuests == 1..(MaxGuests - 1)
MaxIds    == 2
GuestIds  == UNION {[1..n -> Guests] : n \in 1..MaxIds}

BookingStatus == {"PENDING", "CONFIRMED", "CANCELLED", "CHECKED_IN", "CHECKED_OUT", "EXPIRED"}
PaymentStatus == {"PENDING", "COMPLETED", "FAILED", "REFUNDED"}

VARIABLES
    room,        \* the room type: total_count, base_price, and whether its row exists
    inventory,   \* inventories table of the room: date -> row
    bookings,    \* bookings table: sequence, id = index
    payments,    \* payments table: sequence, id = index
    pc,          \* per request slot: position in its handler
    loc,         \* per request slot: arguments and the objects its session loaded
    res,         \* response sent by the last step, NoRes if it ended no request
    edits        \* number of administrative edits started

vars == <<room, inventory, bookings, payments, pc, loc, res, edits>>

\* ---------------------------------------------------------------- helpers
NoRow == [exists |-> FALSE, available_count |-> 0, booked_count |-> 0, price |-> 0]
NoLoc == [op |-> "none"]
NoRes == [outcome |-> "none", date |-> 0]

Max(a, b) == IF a >= b THEN a ELSE b
Min(a, b) == IF a <= b THEN a ELSE b

\* nights of the half-open range [ci, co)
Nights(ci, co) == ci .. (co - 1)

\* ids of the payments rows of a booking
PaymentsOf(b) == {k \in 1..Len(payments) : payments[k].booking_id = b}
PaymentOf(b) == IF PaymentsOf(b) = {} THEN 0 ELSE CHOOSE k \in PaymentsOf(b) : TRUE

\* price of rc rooms over the nights of [ci, co) at the nightly prices of the ledger
RECURSIVE PriceOfNights(_, _, _)
PriceOfNights(ci, co, rc) ==
    IF ci >= co THEN 0 ELSE inventory[ci].price * rc + PriceOfNights(ci + 1, co, rc)

\* the unit of work emits an UPDATE for a column only when the value set on
\* the object differs from the value the session loaded
Flush(loaded, new, current) == IF new = loaded THEN current ELSE new

\* the request of slot p ends: its response names the outcome and, for a
\* rejected reservation, the date the error detail names
FinishAt(p, outcome, date) ==
    /\ pc' = [pc EXCEPT ![p] = "idle"]
    /\ loc' = [loc EXCEPT ![p] = NoLoc]
    /\ res' = [outcome |-> outcome, date |-> date]

Finish(p, outcome) == FinishAt(p, outcome, 0)

\* the request of slot p ends with the payment session it returns
FinishSession(p, session, amount) ==
    /\ pc' = [pc EXCEPT ![p] = "idle"]
    /\ loc' = [loc EXCEPT ![p] = NoLoc]
    /\ res' = [outcome |-> "ok", date |-> 0, payment_session_id |-> session, amount |-> amount]

\* the request of slot p ends with an error whose detail tells it apart from
\* the other errors of the same kind
FinishDetail(p, outcome, detail) ==
    /\ pc' = [pc EXCEPT ![p] = "idle"]
    /\ loc' = [loc EXCEPT ![p] = NoLoc]
    /\ res' = [outcome |-> outcome, date |-> 0, detail |-> detail]

\* the request of slot p goes on to its next await point
Goto(p, label, l) ==
    /\ pc' = [pc EXCEPT ![p] = label]
    /\ loc' = [loc EXCEPT ![p] = l]
    /\ res' = NoRes

\* ---------------------------------------------------------------- Init
\* the room was onboarded with inventory for the dates up to window, and the
\* hotel admin then gave every date its own nightly price
InitialInventory(window) ==
    [d \in Dates |-> IF d <= window
                     THEN [exists |-> TRUE, available_count |-> room.total_count,
                           booked_count |-> 0, price |-> d]
                     ELSE NoRow]

Init ==
    /\ room \in [total_count : 1..MaxCount, base_price : {1}, exists : {TRUE}]
    /\ \E window \in 1..MaxDate : inventory = InitialInventory(window)
    /\ bookings = << >>
    /\ payments = << >>
    /\ pc = [p \in Procs |-> "idle"]
    /\ loc = [p \in Procs |-> NoLoc]
    /\ res = NoRes
    /\ edits = 0

\* ---------------------------------------------------------------- reserve
InFlight(label) == Cardinality({q \in Procs : pc[q] \in label})

\* variant: does not look the hotel and the room up before it reads inventory
InitBookingStartUnverified(p, ci, co, rc, hotelActive, roomInHotel) ==
    /\ pc[p] = "idle"
    /\ Len(bookings) + InFlight({"r_check", "r_commit"}) < MaxBookings
    /\ IF ci >= co \/ ci < Today
       THEN Finish(p, "InvalidRequest")
       ELSE Goto(p, "r_check",
                 [op |-> "reserve", check_in_date |-> ci, check_out_date |-> co,
                  rooms_count |-> rc, i |-> 0, total_price |-> 0,
                  snap |-> [d \in Dates |-> 0]])
    /\ UNCHANGED <<room, inventory, bookings, payments, edits>>

InitBookingStart(p, ci, co, rc, hotelActive, roomInHotel) ==
    /\ pc[p] = "idle"
    /\ Len(bookings) + InFlight({"r_check", "r_commit"}) < MaxBookings
    /\ IF ci >= co \/ ci < Today
       THEN Finish(p, "InvalidRequest")
       ELSE IF ~hotelActive \/ ~roomInHotel
       THEN Finish(p, "NotFound")
       ELSE Goto(p, "r_check",
                 [op |-> "reserve", check_in_date |-> ci, check_out_date |-> co,
                  rooms_count |-> rc, i |-> 0, total_price |-> 0,
                  snap |-> [d \in Dates |-> 0]])
    /\ UNCHANGED <<room, inventory, bookings, payments, edits>>

\* variant: commits each night as soon as it has passed the check
InitBookingCheckEager(p) ==
    /\ pc[p] = "r_check"
    /\ LET l == loc[p]
           d == l.check_in_date + l.i
           inv == inventory[d]
           nights == l.check_out_date - l.check_in_date
       IN  IF ~inv.exists
           THEN FinishAt(p, "NoInventory", d) /\ UNCHANGED inventory
           ELSE IF inv.available_count - inv.booked_count < l.rooms_count
           THEN FinishAt(p, "InsufficientCapacity", d) /\ UNCHANGED inventory
           ELSE /\ Goto(p, IF l.i + 1 = nights THEN "r_commit" ELSE "r_check",
                        [l EXCEPT !.i = l.i + 1,
                                  !.total_price = l.total_price + inv.price * l.rooms_count,
                                  !.snap[d] = inv.booked_count])
                /\ inventory' = [inventory EXCEPT ![d].booked_count = @ + l.rooms_count]
    /\ UNCHANGED <<room, bookings, payments, edits>>

\* variant: lets a night pass that is one room short
InitBookingCheckLenient(p) ==
    /\ pc[p] = "r_check"
    /\ LET l == loc[p]
           d == l.check_in_date + l.i
           inv == inventory[d]
           nights == l.check_out_date - l.check_in_date
       IN  IF ~inv.exists
           THEN FinishAt(p, "NoInventory", d)
           ELSE IF inv.available_count - inv.booked_count < l.rooms_count - 1
           THEN FinishAt(p, "InsufficientCapacity", d)
           ELSE Goto(p, IF l.i + 1 = nights THEN "r_commit" ELSE "r_check",
                     [l EXCEPT !.i = l.i + 1,
                               !.total_price = l.total_price + inv.price * l.rooms_count,
                               !.snap[d] = inv.booked_count])
    /\ UNCHANGED <<room, inventory, bookings, payments, edits>>

InitBookingCheck(p) ==
    /\ pc[p] = "r_check"
    /\ LET l == loc[p]
           d == l.check_in_date + l.i
           inv == inventory[d]
           nights == l.check_out_date - l.check_in_date
       IN  IF ~inv.exists
           THEN FinishAt(p, "NoInventory", d)
           ELSE IF inv.available_count - inv.booked_count < l.rooms_count
           THEN FinishAt(p, "InsufficientCapacity", d)
           ELSE Goto(p, IF l.i + 1 = nights THEN "r_commit" ELSE "r_check",
                     [l EXCEPT !.i = l.i + 1,
                               !.total_price = l.total_price + inv.price * l.rooms_count,
                               !.snap[d] = inv.booked_count])
    /\ UNCHANGED <<room, inventory, bookings, payments, edits>>

\* variant: counts the check-out date as a night
ReserveInventoryInclusive(l) ==
    [d \in Dates |->
        IF l.check_in_date <= d /\ d <= l.check_out_date /\ inventory[d].exists
        THEN [inventory[d] EXCEPT !.booked_count =
                 (IF d < l.check_out_date THEN l.snap[d] ELSE @) + l.rooms_count]
        ELSE inventory[d]]

ReserveInventory(l) ==
    [d \in Dates |->
        IF d \in Nights(l.check_in_date, l.check_out_date) /\ inventory[d].exists
        THEN [inventory[d] EXCEPT !.booked_count = l.snap[d] + l.rooms_count]
        ELSE inventory[d]]

InitBookingCommit(p) ==
    /\ pc[p] = "r_commit"
    /\ LET l == loc[p]
       IN  /\ bookings' = Append(bookings,
                 [check_in_date |-> l.check_in_date, check_out_date |-> l.check_out_date,
                  rooms_count |-> l.rooms_count, total_price |-> l.total_price,
                  status |-> "PENDING", cancellation_reason |-> "None",
                  payment_session_id |-> 0, guests |-> {}])
           /\ inventory' = ReserveInventory(l)
    /\ Finish(p, "ok")
    /\ UNCHANGED <<room, payments, edits>>

\* ---------------------------------------------------------------- cancel
CancelStart(p, b, reason) ==
    /\ pc[p] = "idle"
    /\ IF b > Len(bookings)
       THEN Finish(p, "NotFound")
       ELSE IF bookings[b].status \in {"CANCELLED", "CHECKED_OUT"}
       THEN Finish(p, "InvalidState")
       ELSE Goto(p, "c_release",
                 [op |-> "cancel", b |-> b, reason |-> reason, i |-> 0,
                  status |-> bookings[b].status,
                  cancellation_reason |-> bookings[b].cancellation_reason,
                  payment |-> PaymentOf(b),
                  payment_status |-> IF PaymentOf(b) = 0 THEN "None"
                                     ELSE payments[PaymentOf(b)].status,
                  snap |-> [d \in Dates |-> 0]])
    /\ UNCHANGED <<room, inventory, bookings, payments, edits>>

CancelRelease(p) ==
    /\ pc[p] = "c_release"
    /\ LET l == loc[p]
           bk == bookings[l.b]
           d == bk.check_in_date + l.i
           nights == bk.check_out_date - bk.check_in_date
       IN  Goto(p, IF l.i + 1 = nights THEN "c_commit" ELSE "c_release",
                [l EXCEPT !.i = l.i + 1, !.snap[d] = inventory[d].booked_count])
    /\ UNCHANGED <<room, inventory, bookings, payments, edits>>

ReleaseInventory(bk, snap) ==
    [d \in Dates |->
        IF d \in Nights(bk.check_in_date, bk.check_out_date) /\ inventory[d].exists
        THEN [inventory[d] EXCEPT !.booked_count =
                 Flush(snap[d], Max(0, snap[d] - bk.rooms_count), inventory[d].booked_count)]
        ELSE inventory[d]]

\* _release_inventory run in a session of its own on the ledger passed to it
ReleaseApplied(ledger, bk) ==
    [d \in Dates |->
        IF d \in Nights(bk.check_in_date, bk.check_out_date) /\ ledger[d].exists
        THEN [ledger[d] EXCEPT !.booked_count = Max(0, @ - bk.rooms_count)]
        ELSE ledger[d]]

\* variant: refunds whatever payment the booking has
CancelCommitRefundAny(p) ==
    /\ pc[p] = "c_commit"
    /\ LET l == loc[p]
           bk == bookings[l.b]
       IN  /\ inventory' = ReleaseInventory(bk, l.snap)
           /\ bookings' = [bookings EXCEPT ![l.b] =
                 [bk EXCEPT !.status = Flush(l.status, "CANCELLED", bk.status),
                            !.cancellation_reason =
                                Flush(l.cancellation_reason, l.reason, bk.cancellation_reason)]]
           /\ payments' = IF l.payment # 0
                          THEN [payments EXCEPT ![l.payment].status = "REFUNDED"]
                          ELSE payments
    /\ Finish(p, "ok")
    /\ UNCHANGED <<room, edits>>

\* variant that leaves the payment as it is, for the mutation check of C27
CancelCommitNoRefund(p) ==
    /\ pc[p] = "c_commit"
    /\ LET l == loc[p]
           bk == bookings[l.b]
       IN  /\ inventory' = ReleaseInventory(bk, l.snap)
           /\ bookings' = [bookings EXCEPT ![l.b] =
                 [bk EXCEPT !.status = Flush(l.status, "CANCELLED", bk.status),
                            !.cancellation_reason =
                                Flush(l.cancellation_reason, l.reason, bk.cancellation_reason)]]
           /\ payments' = payments
    /\ Finish(p, "ok")
    /\ UNCHANGED <<room, edits>>

CancelCommit(p) ==
    /\ pc[p] = "c_commit"
    /\ LET l == loc[p]
           bk == bookings[l.b]
       IN  /\ inventory' = ReleaseInventory(bk, l.snap)
           /\ bookings' = [bookings EXCEPT ![l.b] =
                 [bk EXCEPT !.status = Flush(l.status, "CANCELLED", bk.status),
                            !.cancellation_reason =
                                Flush(l.cancellation_reason, l.reason, bk.cancellation_reason)]]
           /\ payments' = IF l.payment # 0 /\ l.payment_status = "COMPLETED"
                          THEN [payments EXCEPT ![l.payment].status = "REFUNDED"]
                          ELSE payments
    /\ Finish(p, "ok")
    /\ UNCHANGED <<room, edits>>

\* ---------------------------------------------------------------- initiate
\* variant: takes a booking of any status
InitiateStartAnyStatus(p, b) ==
    /\ pc[p] = "idle"
    /\ IF b > Len(bookings)
       THEN Finish(p, "NotFound")
       ELSE Goto(p, "i_payment",
                 [op |-> "initiate", b |-> b, total_price |-> bookings[b].total_price,
                  payment_session_id |-> bookings[b].payment_session_id])
    /\ UNCHANGED <<room, inventory, bookings, payments, edits>>

InitiateStart(p, b) ==
    /\ pc[p] = "idle"
    /\ IF b > Len(bookings)
       THEN Finish(p, "NotFound")
       ELSE IF bookings[b].status # "PENDING"
       THEN Finish(p, "InvalidState")
       ELSE Goto(p, "i_payment",
                 [op |-> "initiate", b |-> b, total_price |-> bookings[b].total_price,
                  payment_session_id |-> bookings[b].payment_session_id])
    /\ UNCHANGED <<room, inventory, bookings, payments, edits>>

\* variant: an existing PENDING payment does not end the request
InitiateReadPaymentNoResume(p) ==
    /\ pc[p] = "i_payment"
    /\ LET l == loc[p]
           k == PaymentOf(l.b)
       IN  IF k # 0 /\ payments[k].status = "COMPLETED"
           THEN Finish(p, "AlreadyPaid")
           ELSE Goto(p, "i_commit", l)
    /\ UNCHANGED <<room, inventory, bookings, payments, edits>>

InitiateReadPayment(p) ==
    /\ pc[p] = "i_payment"
    /\ LET l == loc[p]
           k == PaymentOf(l.b)
       IN  IF k # 0 /\ payments[k].status = "COMPLETED"
           THEN Finish(p, "AlreadyPaid")
           ELSE IF k # 0 /\ payments[k].status = "PENDING"
           THEN FinishSession(p, payments[k].payment_session_id, payments[k].amount)
           ELSE Goto(p, "i_commit", l)
    /\ UNCHANGED <<room, inventory, bookings, payments, edits>>

\* variant: the payments table has no unique constraint on booking_id
InitiateCommitNoUnique(p) ==
    /\ pc[p] = "i_commit"
    /\ LET l == loc[p]
           session == Len(payments) + 1
       IN  /\ payments' = Append(payments,
                 [booking_id |-> l.b, amount |-> l.total_price, status |-> "PENDING",
                  transaction_id |-> 0, payment_session_id |-> session, paid_at |-> 0])
           /\ bookings' = [bookings EXCEPT ![l.b].payment_session_id =
                 Flush(l.payment_session_id, session, bookings[l.b].payment_session_id)]
           /\ FinishSession(p, session, l.total_price)
    /\ UNCHANGED <<room, inventory, edits>>

\* variant: prices the payment at the nightly prices the ledger has now
InitiateCommitRepriced(p) ==
    /\ pc[p] = "i_commit"
    /\ LET l == loc[p]
           bk == bookings[l.b]
           session == Len(payments) + 1
           amount == PriceOfNights(bk.check_in_date, bk.check_out_date, bk.rooms_count)
       IN  IF PaymentsOf(l.b) # {}
           THEN /\ Finish(p, "IntegrityError")
                /\ UNCHANGED <<bookings, payments>>
           ELSE /\ payments' = Append(payments,
                      [booking_id |-> l.b, amount |-> amount, status |-> "PENDING",
                       transaction_id |-> 0, payment_session_id |-> session, paid_at |-> 0])
                /\ bookings' = [bookings EXCEPT ![l.b].payment_session_id =
                      Flush(l.payment_session_id, session, bookings[l.b].payment_session_id)]
                /\ FinishSession(p, session, amount)
    /\ UNCHANGED <<room, inventory, edits>>

InitiateCommit(p) ==
    /\ pc[p] = "i_commit"
    /\ LET l == loc[p]
           session == Len(payments) + 1
       IN  IF PaymentsOf(l.b) # {}
           THEN /\ Finish(p, "IntegrityError")
                /\ UNCHANGED <<bookings, payments>>
           ELSE /\ payments' = Append(payments,
                      [booking_id |-> l.b, amount |-> l.total_price, status |-> "PENDING",
                       transaction_id |-> 0, payment_session_id |-> session, paid_at |-> 0])
                /\ bookings' = [bookings EXCEPT ![l.b].payment_session_id =
                      Flush(l.payment_session_id, session, bookings[l.b].payment_session_id)]
                /\ FinishSession(p, session, l.total_price)
    /\ UNCHANGED <<room, inventory, edits>>

\* ---------------------------------------------------------------- confirm_webhook
SessionPayment(sid) ==
    IF \E k \in 1..Len(payments) : payments[k].payment_session_id = sid
    THEN CHOOSE k \in 1..Len(payments) : payments[k].payment_session_id = sid
    ELSE 0

\* variant: does not look at the status of the payment it found
WebhookStartUnguarded(p, sid, txn, outcome, amount, currency) ==
    /\ pc[p] = "idle"
    /\ LET k == SessionPayment(sid)
       IN  IF k = 0
           THEN Finish(p, "NotFound")
           ELSE Goto(p, "w_booking",
                     [op |-> "webhook", payment |-> k, transaction_id |-> txn,
                      outcome |-> outcome, amount |-> amount, currency |-> currency,
                      payment_status |-> payments[k].status, status |-> "None"])
    /\ UNCHANGED <<room, inventory, bookings, payments, edits>>

WebhookStart(p, sid, txn, outcome, amount, currency) ==
    /\ pc[p] = "idle"
    /\ LET k == SessionPayment(sid)
       IN  IF k = 0
           THEN Finish(p, "NotFound")
           ELSE IF payments[k].status # "PENDING"
           THEN Finish(p, "AlreadyProcessed")
           ELSE Goto(p, "w_booking",
                     [op |-> "webhook", payment |-> k, transaction_id |-> txn,
                      outcome |-> outcome, amount |-> amount, currency |-> currency,
                      payment_status |-> payments[k].status, status |-> "None"])
    /\ UNCHANGED <<room, inventory, bookings, payments, edits>>

WebhookReadBooking(p) ==
    /\ pc[p] = "w_booking"
    /\ LET l == loc[p]
       IN  Goto(p, "w_commit", [l EXCEPT !.status = bookings[payments[l.payment].booking_id].status])
    /\ UNCHANGED <<room, inventory, bookings, payments, edits>>

\* variant: a failed payment gives the nights of the booking back
WebhookCommitReleasing(p) ==
    /\ pc[p] = "w_commit"
    /\ LET l == loc[p]
           k == l.payment
           b == payments[k].booking_id
           success == l.outcome = "success"
       IN  IF \E j \in 1..Len(payments) : j # k /\ payments[j].transaction_id = l.transaction_id
           THEN /\ Finish(p, "IntegrityError")
                /\ UNCHANGED <<bookings, payments, inventory>>
           ELSE /\ \E now \in Times :
                     payments' = [payments EXCEPT ![k] =
                        [payments[k] EXCEPT
                            !.status = IF success THEN "COMPLETED" ELSE "FAILED",
                            !.transaction_id = l.transaction_id,
                            !.paid_at = IF success THEN now ELSE payments[k].paid_at]]
                /\ bookings' = [bookings EXCEPT ![b].status =
                      Flush(l.status, IF success THEN "CONFIRMED" ELSE "EXPIRED",
                            bookings[b].status)]
                /\ inventory' = IF success THEN inventory
                                ELSE ReleaseApplied(inventory, bookings[b])
                /\ Finish(p, "ok")
    /\ UNCHANGED <<room, edits>>

\* variant that checks the guest in on a successful payment, for the mutation
\* check of C28
WebhookCommitCheckingIn(p) ==
    /\ pc[p] = "w_commit"
    /\ LET l == loc[p]
           k == l.payment
           b == payments[k].booking_id
           success == l.outcome = "success"
       IN  IF \E j \in 1..Len(payments) : j # k /\ payments[j].transaction_id = l.transaction_id
           THEN /\ Finish(p, "IntegrityError")
                /\ UNCHANGED <<bookings, payments>>
           ELSE /\ \E now \in Times :
                     payments' = [payments EXCEPT ![k] =
                        [payments[k] EXCEPT
                            !.status = IF success THEN "COMPLETED" ELSE "FAILED",
                            !.transaction_id = l.transaction_id,
                            !.paid_at = IF success THEN now ELSE payments[k].paid_at]]
                /\ bookings' = [bookings EXCEPT ![b].status =
                      Flush(l.status, IF success THEN "CHECKED_IN" ELSE "EXPIRED",
                            bookings[b].status)]
                /\ Finish(p, "ok")
    /\ UNCHANGED <<room, inventory, edits>>

\* variant that refuses a delivery whose amount is not the amount of the
\* payment, for the mutation check of C29
WebhookCommitAmountChecked(p) ==
    /\ pc[p] = "w_commit"
    /\ LET l == loc[p]
           k == l.payment
           b == payments[k].booking_id
           success == l.outcome = "success"
       IN  IF l.amount # payments[k].amount
           THEN /\ Finish(p, "InvalidRequest")
                /\ UNCHANGED <<bookings, payments>>
           ELSE IF \E j \in 1..Len(payments) : j # k /\ payments[j].transaction_id = l.transaction_id
           THEN /\ Finish(p, "IntegrityError")
                /\ UNCHANGED <<bookings, payments>>
           ELSE /\ \E now \in Times :
                     payments' = [payments EXCEPT ![k] =
                        [payments[k] EXCEPT
                            !.status = IF success THEN "COMPLETED" ELSE "FAILED",
                            !.transaction_id = l.transaction_id,
                            !.paid_at = IF success THEN now ELSE payments[k].paid_at]]
                /\ bookings' = [bookings EXCEPT ![b].status =
                      Flush(l.status, IF success THEN "CONFIRMED" ELSE "EXPIRED",
                            bookings[b].status)]
                /\ Finish(p, "ok")
    /\ UNCHANGED <<room, inventory, edits>>

WebhookCommit(p) ==
    /\ pc[p] = "w_commit"
    /\ LET l == loc[p]
           k == l.payment
           b == payments[k].booking_id
           success == l.outcome = "success"
       IN  IF \E j \in 1..Len(payments) : j # k /\ payments[j].transaction_id = l.transaction_id
           THEN /\ Finish(p, "IntegrityError")
                /\ UNCHANGED <<bookings, payments>>
           ELSE /\ \E now \in Times :
                     payments' = [payments EXCEPT ![k] =
                        [payments[k] EXCEPT
                            !.status = IF success THEN "COMPLETED" ELSE "FAILED",
                            !.transaction_id = l.transaction_id,
                            !.paid_at = IF success THEN now ELSE payments[k].paid_at]]
                /\ bookings' = [bookings EXCEPT ![b].status =
                      Flush(l.status, IF success THEN "CONFIRMED" ELSE "EXPIRED",
                            bookings[b].status)]
                /\ Finish(p, "ok")
    /\ UNCHANGED <<room, inventory, edits>>

\* ---------------------------------------------------------------- administrative edit
UpdateInventoryStart(p, d, ac, price) ==
    /\ pc[p] = "idle"
    /\ edits < MaxEdits
    /\ Goto(p, "u_commit",
            [op |-> "update_inventory", date |-> d, available_count |-> ac,
             price |-> price, loaded |-> inventory[d]])
    /\ edits' = edits + 1
    /\ UNCHANGED <<room, inventory, bookings, payments>>

\* variant that writes the whole loaded row back, for the mutation check of C25
UpdateInventoryCommitWholeRow(p) ==
    /\ pc[p] = "u_commit"
    /\ LET l == loc[p]
           cur == inventory[l.date]
       IN  IF ~l.loaded.exists
           THEN IF cur.exists
                THEN /\ Finish(p, "IntegrityError")
                     /\ UNCHANGED inventory
                ELSE /\ inventory' = [inventory EXCEPT ![l.date] =
                           [exists |-> TRUE,
                            available_count |-> IF l.available_count \in {Unset, 0}
                                                THEN room.total_count ELSE l.available_count,
                            booked_count |-> 0,
                            price |-> IF l.price = Unset THEN room.base_price ELSE l.price]]
                     /\ Finish(p, "ok")
           ELSE /\ inventory' = [inventory EXCEPT ![l.date] =
                      [l.loaded EXCEPT
                          !.available_count = IF l.available_count = Unset THEN @
                              ELSE l.available_count,
                          !.price = IF l.price = Unset THEN @ ELSE l.price]]
                /\ Finish(p, "ok")
    /\ UNCHANGED <<room, bookings, payments, edits>>

UpdateInventoryCommit(p) ==
    /\ pc[p] = "u_commit"
    /\ LET l == loc[p]
           cur == inventory[l.date]
       IN  IF ~l.loaded.exists
           THEN IF cur.exists
                THEN /\ Finish(p, "IntegrityError")
                     /\ UNCHANGED inventory
                ELSE /\ inventory' = [inventory EXCEPT ![l.date] =
                           [exists |-> TRUE,
                            available_count |-> IF l.available_count \in {Unset, 0}
                                                THEN room.total_count ELSE l.available_count,
                            booked_count |-> 0,
                            price |-> IF l.price = Unset THEN room.base_price ELSE l.price]]
                     /\ Finish(p, "ok")
           ELSE /\ inventory' = [inventory EXCEPT ![l.date] =
                      [cur EXCEPT
                          !.available_count = IF l.available_count = Unset THEN cur.available_count
                              ELSE Flush(l.loaded.available_count, l.available_count, cur.available_count),
                          !.price = IF l.price = Unset THEN cur.price
                              ELSE Flush(l.loaded.price, l.price, cur.price)]]
                /\ Finish(p, "ok")
    /\ UNCHANGED <<room, bookings, payments, edits>>

\* ---------------------------------------------------------------- administrative edit of a date range
BulkUpdateStart(p, sd, ed, ac, price) ==
    /\ pc[p] = "idle"
    /\ edits < MaxEdits
    /\ IF sd > ed
       THEN Finish(p, "InvalidRequest") /\ UNCHANGED edits
       ELSE /\ Goto(p, "k_read",
                    [op |-> "bulk_update_inventory", start_date |-> sd, end_date |-> ed,
                     available_count |-> ac, price |-> price, i |-> 0,
                     loaded |-> [d \in Dates |-> NoRow]])
            /\ edits' = edits + 1
    /\ UNCHANGED <<room, inventory, bookings, payments>>

BulkUpdateRead(p) ==
    /\ pc[p] = "k_read"
    /\ LET l == loc[p]
           d == l.start_date + l.i
       IN  Goto(p, IF d = l.end_date THEN "k_commit" ELSE "k_read",
                [l EXCEPT !.i = l.i + 1, !.loaded[d] = inventory[d]])
    /\ UNCHANGED <<room, inventory, bookings, payments, edits>>

BulkUpdateCommit(p) ==
    /\ pc[p] = "k_commit"
    /\ LET l == loc[p]
           range == l.start_date .. l.end_date
       IN  IF \E d \in range : ~l.loaded[d].exists /\ inventory[d].exists
           THEN /\ Finish(p, "IntegrityError")
                /\ UNCHANGED inventory
           ELSE /\ inventory' =
                     [d \in Dates |->
                        IF d \notin range THEN inventory[d]
                        ELSE IF ~l.loaded[d].exists
                        THEN [exists |-> TRUE,
                              available_count |-> IF l.available_count \in {Unset, 0}
                                                  THEN room.total_count ELSE l.available_count,
                              booked_count |-> 0,
                              price |-> IF l.price = Unset THEN room.base_price ELSE l.price]
                        ELSE [inventory[d] EXCEPT
                                 !.available_count =
                                     IF l.available_count = Unset THEN @
                                     ELSE Flush(l.loaded[d].available_count, l.available_count, @),
                                 !.price =
                                     IF l.price = Unset THEN @
                                     ELSE Flush(l.loaded[d].price, l.price, @)]]
                /\ Finish(p, "ok")
    /\ UNCHANGED <<room, bookings, payments, edits>>

\* ---------------------------------------------------------------- add_guests
Range(f) == {f[i] : i \in DOMAIN f}

AddGuestsStart(p, b, guest_ids) ==
    /\ pc[p] = "idle"
    /\ IF b > Len(bookings)
       THEN Finish(p, "NotFound")
       ELSE IF bookings[b].status \notin {"PENDING", "CONFIRMED"}
       THEN FinishDetail(p, "InvalidState", "Cannot add guests to this booking")
       ELSE Goto(p, "g_guests",
                 [op |-> "add_guests", b |-> b, guest_ids |-> guest_ids,
                  guests |-> bookings[b].guests, found |-> {}])
    /\ UNCHANGED <<room, inventory, bookings, payments, edits>>

\* variant: attaches the guests it found before it counts them
AddGuestsReadGuestsPartial(p) ==
    /\ pc[p] = "g_guests"
    /\ LET l == loc[p]
           found == Range(l.guest_ids) \cap OwnGuests
       IN  /\ bookings' = [bookings EXCEPT ![l.b].guests = @ \cup found]
           /\ IF Cardinality(found) # Len(l.guest_ids)
              THEN FinishDetail(p, "NotFound", "Some guests not found")
              ELSE Goto(p, "g_commit", [l EXCEPT !.found = found])
    /\ UNCHANGED <<room, inventory, payments, edits>>

AddGuestsReadGuests(p) ==
    /\ pc[p] = "g_guests"
    /\ LET l == loc[p]
           found == Range(l.guest_ids) \cap OwnGuests
       IN  IF Cardinality(found) # Len(l.guest_ids)
           THEN FinishDetail(p, "NotFound", "Some guests not found")
           ELSE Goto(p, "g_commit", [l EXCEPT !.found = found])
    /\ UNCHANGED <<room, inventory, bookings, payments, edits>>

\* variant: the flush inserts a booking_guests row for every guest it found
AddGuestsCommitInsertAll(p) ==
    /\ pc[p] = "g_commit"
    /\ LET l == loc[p]
           added == l.found
       IN  IF added \cap bookings[l.b].guests # {}
           THEN /\ Finish(p, "IntegrityError")
                /\ UNCHANGED bookings
           ELSE /\ bookings' = [bookings EXCEPT ![l.b].guests = @ \cup added]
                /\ Finish(p, "ok")
    /\ UNCHANGED <<room, inventory, payments, edits>>

\* the flush inserts a booking_guests row for every guest appended to the
\* collection that was not in it when the session loaded it
AddGuestsCommit(p) ==
    /\ pc[p] = "g_commit"
    /\ LET l == loc[p]
           added == l.found \ l.guests
       IN  IF added \cap bookings[l.b].guests # {}
           THEN /\ Finish(p, "IntegrityError")
                /\ UNCHANGED bookings
           ELSE /\ bookings' = [bookings EXCEPT ![l.b].guests = @ \cup added]
                /\ Finish(p, "ok")
    /\ UNCHANGED <<room, inventory, payments, edits>>

\* ---------------------------------------------------------------- delete_room
DeleteRoomStart(p) ==
    /\ pc[p] = "idle"
    /\ IF ~room.exists
       THEN Finish(p, "NotFound")
       ELSE Goto(p, "d_commit", [op |-> "delete_room"])
    /\ UNCHANGED <<room, inventory, bookings, payments, edits>>

\* the delete cascades over Room.inventories and Room.bookings, and from each
\* booking to its payment and its booking_guests rows
DeleteRoomCommit(p) ==
    /\ pc[p] = "d_commit"
    /\ room' = [room EXCEPT !.exists = FALSE]
    /\ inventory' = [d \in Dates |-> NoRow]
    /\ bookings' = << >>
    /\ payments' = << >>
    /\ Finish(p, "ok")
    /\ UNCHANGED edits

\* ---------------------------------------------------------------- specifications
Outcomes == {"success", "failed"}

Reserve(p) ==
    \/ \E ci \in 0..MaxDate, co \in 1..(MaxDate + 1), rc \in 1..MaxCount,
          hotelActive \in BOOLEAN, roomInHotel \in BOOLEAN :
          InitBookingStart(p, ci, co, rc, hotelActive, roomInHotel)
    \/ InitBookingCheck(p)
    \/ InitBookingCommit(p)

Cancel(p) ==
    \/ \E b \in 1..MaxBookings, reason \in Reasons : CancelStart(p, b, reason)
    \/ CancelRelease(p)
    \/ CancelCommit(p)

Initiate(p) ==
    \/ \E b \in 1..MaxBookings : InitiateStart(p, b)
    \/ InitiateReadPayment(p)
    \/ InitiateCommit(p)

\* the gateway issues one transaction id per session
Webhook(p) ==
    \/ \E sid \in 1..MaxBookings, outcome \in Outcomes,
          amount \in WebhookAmounts, currency \in Currencies :
             WebhookStart(p, sid, sid, outcome, amount, currency)
    \/ WebhookReadBooking(p)
    \/ WebhookCommit(p)

UpdateInventory(p) ==
    \/ \E d \in Dates, ac \in Counts \cup {Unset}, price \in Prices \cup {Unset} :
          UpdateInventoryStart(p, d, ac, price)
    \/ UpdateInventoryCommit(p)

BulkUpdateInventory(p) ==
    \/ \E sd \in Dates, ed \in Dates, ac \in Counts \cup {Unset}, price \in Prices \cup {Unset} :
          BulkUpdateStart(p, sd, ed, ac, price)
    \/ BulkUpdateRead(p)
    \/ BulkUpdateCommit(p)

\* the booking lifecycle, requests served one after the other in one slot
NextSeq == Reserve(1) \/ Cancel(1) \/ Initiate(1) \/ Webhook(1)

SpecSeq == Init /\ [][NextSeq]_vars

\* reservations, cancellations and administrative edits racing over the ledger
NextLedger ==
    \E p \in Procs : Reserve(p) \/ Cancel(p) \/ UpdateInventory(p) \/ BulkUpdateInventory(p)

SpecLedger == Init /\ [][NextLedger]_vars

\* the payment handshake of one booking: initiations, webhook deliveries with
\* any transaction id, and cancellations racing over the booking and its payment
PayBookings == 1

ReserveFirst(p) ==
    \/ /\ Len(bookings) + InFlight({"r_check", "r_commit"}) < PayBookings
       /\ \E ci \in 0..MaxDate, co \in 1..(MaxDate + 1), rc \in 1..MaxCount :
             InitBookingStart(p, ci, co, rc, TRUE, TRUE)
    \/ InitBookingCheck(p)
    \/ InitBookingCommit(p)

Deliver(p) ==
    \/ \E sid \in 1..PayBookings, txn \in TxnIds, outcome \in Outcomes :
          WebhookStart(p, sid, txn, outcome, 1, "USD")
    \/ WebhookReadBooking(p)
    \/ WebhookCommit(p)

NextPay == \E p \in Procs : ReserveFirst(p) \/ Cancel(p) \/ Initiate(p) \/ Deliver(p)

SpecPay == Init /\ [][NextPay]_vars

\* the price of one booking: reservation, administrative edits and payment
\* initiation of a booking racing over the ledger
NextPrice == \E p \in Procs : ReserveFirst(p) \/ UpdateInventory(p) \/ Initiate(p)

SpecPrice == Init /\ [][NextPrice]_vars

\* what the server does by itself: a request that was received is served to
\* its end; no clock, timer or background job is part of the program, and the
\* arrival of a request or of a webhook delivery is up to the outside world
ServeStep(p) ==
    \/ InitBookingCheck(p) \/ InitBookingCommit(p)
    \/ CancelRelease(p) \/ CancelCommit(p)
    \/ InitiateReadPayment(p) \/ InitiateCommit(p)
    \/ WebhookReadBooking(p) \/ WebhookCommit(p)

SpecSeqFair == Init /\ [][NextSeq]_vars /\ WF_vars(ServeStep(1))

AddGuests(p) ==
    \/ \E b \in 1..PayBookings, guest_ids \in GuestIds : AddGuestsStart(p, b, guest_ids)
    \/ AddGuestsReadGuests(p)
    \/ AddGuestsCommit(p)

\* the guests of one booking along its lifecycle, requests served one after
\* the other
NextGuests ==
    \/ ReserveFirst(1) \/ Cancel(1) \/ Initiate(1) \/ Webhook(1) \/ AddGuests(1)

SpecGuests == Init /\ [][NextGuests]_vars

\* reservations name the one room: they find it as long as its row exists
ReserveRoom(p) ==
    \/ \E ci \in 0..MaxDate, co \in 1..(MaxDate + 1), rc \in 1..MaxCount :
          InitBookingStart(p, ci, co, rc, TRUE, room.exists)
    \/ InitBookingCheck(p)
    \/ InitBookingCommit(p)

DeleteRoom(p) == DeleteRoomStart(p) \/ DeleteRoomCommit(p)

\* the booking lifecycle with the hotel admin deleting the room, requests served
\* one after the other
NextDelete == ReserveRoom(1) \/ Cancel(1) \/ Initiate(1) \/ Webhook(1) \/ DeleteRoom(1)

SpecDelete == Init /\ [][NextDelete]_vars

\* ---------------------------------------------------------------- properties
StatusOf(b) == bookings[b].status
BookingIds == 1..Len(bookings)
PaymentIds == 1..Len(payments)
NightsOf(b) == Nights(bookings[b].check_in_date, bookings[b].check_out_date)
AllIdle == \A p \in Procs : pc[p] = "idle"

TypeOK ==
    /\ \A d \in Dates : inventory[d].booked_count \in Nat
    /\ \A b \in BookingIds : bookings[b].status \in BookingStatus
    /\ \A k \in PaymentIds : payments[k].status \in PaymentStatus

\* C1: every inventory row keeps 0 <= booked_count <= available_count, whatever
\* reservations, cancellations and administrative edits interleave.
C1_CommittedWithinOffered ==
    \A d \in Dates :
        inventory[d].exists =>
            /\ 0 <= inventory[d].booked_count
            /\ inventory[d].booked_count <= inventory[d].available_count

\* C2: of the reservations of one room each that race for a room-date offering
\* K rooms, at most K succeed: as long as nothing was cancelled or edited, the
\* bookings covering a date are at most the rooms the date offers.
C2_AtMostKSucceed ==
    (/\ edits = 0
     /\ \A b \in BookingIds : StatusOf(b) = "PENDING" /\ bookings[b].rooms_count = 1)
    => \A d \in Dates :
          Cardinality({b \in BookingIds : d \in NightsOf(b)}) <= inventory[d].available_count

\* C3: a reservation writes nothing until all its nights have passed the check:
\* every step it takes up to and including its rejection leaves the inventory,
\* the bookings and the payments exactly as they were.
C3_RejectedReserveNoEffect ==
    [][\A p \in Procs :
          (pc[p] = "r_check" \/ pc'[p] = "r_check")
          => /\ inventory' = inventory
             /\ bookings' = bookings
             /\ payments' = payments
             /\ (pc[p] = "r_check" /\ pc'[p] = "idle"
                    => res'.outcome \in {"NoInventory", "InsufficientCapacity"})]_vars

\* a reservation of two nights has passed the check of its first night and is
\* about to be rejected on the second one
C3_Witness ==
    \E p \in Procs :
        /\ pc[p] = "r_check"
        /\ loc[p].i = 1
        /\ LET inv == inventory[loc[p].check_in_date + 1]
           IN  \/ ~inv.exists
               \/ inv.available_count - inv.booked_count < loc[p].rooms_count

\* C4: the commit of a reservation adds exactly one booking, PENDING, raises
\* booked_count by rooms_count on the nights check_in .. check_out - 1 and on no
\* other date, and prices the booking at the sum of price * rooms_count over
\* those nights.
C4_ReserveCommits ==
    [][\A p \in Procs :
          pc[p] = "r_commit" /\ pc'[p] = "idle"
          => LET l == loc[p]
                 n == Len(bookings) + 1
             IN  /\ res'.outcome = "ok"
                 /\ Len(bookings') = n
                 /\ \A b \in BookingIds : bookings'[b] = bookings[b]
                 /\ payments' = payments
                 /\ bookings'[n].status = "PENDING"
                 /\ bookings'[n].check_in_date = l.check_in_date
                 /\ bookings'[n].check_out_date = l.check_out_date
                 /\ bookings'[n].rooms_count = l.rooms_count
                 /\ bookings'[n].total_price =
                        PriceOfNights(l.check_in_date, l.check_out_date, l.rooms_count)
                 /\ \A d \in Dates :
                        inventory'[d] =
                            IF l.check_in_date <= d /\ d < l.check_out_date
                            THEN [inventory[d] EXCEPT !.booked_count = @ + l.rooms_count]
                            ELSE inventory[d]]_vars

\* one room reserved for the nights 1 and 2 of a room type offering two
C4_Witness ==
    /\ res.outcome = "ok"
    /\ room.total_count = 2
    /\ Len(bookings) = 1
    /\ bookings[1].status = "PENDING"
    /\ bookings[1].check_in_date = 1 /\ bookings[1].check_out_date = 3
    /\ bookings[1].rooms_count = 1
    /\ bookings[1].total_price = inventory[1].price + inventory[2].price
    /\ inventory[1].booked_count = 1 /\ inventory[2].booked_count = 1

LifecycleEdges ==
    {<<"PENDING", "CONFIRMED">>, <<"PENDING", "CANCELLED">>, <<"PENDING", "EXPIRED">>,
     <<"CONFIRMED", "CANCELLED">>, <<"CONFIRMED", "CHECKED_IN">>,
     <<"CHECKED_IN", "CHECKED_OUT">>}

\* C5: every change of a booking's status is an edge of the lifecycle.
C5_OnlyLifecycleEdges ==
    [][\A b \in BookingIds :
          bookings'[b].status # bookings[b].status
          => <<bookings[b].status, bookings'[b].status>> \in LifecycleEdges]_vars

\* C6: a cancellation goes through only for a PENDING or CONFIRMED booking;
\* for any other status it is refused and changes nothing.
C6_CancelOnlyPendingOrConfirmed ==
    [][\A p \in Procs, b \in BookingIds, reason \in Reasons :
          CancelStart(p, b, reason) /\ StatusOf(b) \notin {"PENDING", "CONFIRMED"}
          => /\ res'.outcome = "InvalidState"
             /\ pc'[p] = "idle"]_vars

\* C7: a delivery that finds its payment PENDING applies the transition its
\* outcome names; a delivery for a session whose payment is no longer PENDING
\* is refused as AlreadyProcessed and changes neither payment nor booking.
C7_ReplayRefused ==
    [][\A p \in Procs :
          /\ pc[p] = "w_commit" /\ pc'[p] = "idle" /\ res'.outcome = "ok"
             => LET k == loc[p].payment
                    b == payments[k].booking_id
                    success == loc[p].outcome = "success"
                IN  /\ payments[k].status = "PENDING"
                    /\ payments'[k].status = IF success THEN "COMPLETED" ELSE "FAILED"
                    /\ payments'[k].transaction_id = loc[p].transaction_id
                    /\ bookings'[b].status = IF success THEN "CONFIRMED" ELSE "EXPIRED"
          /\ \A sid \in 1..MaxBookings, txn \in TxnIds, outcome \in Outcomes,
                amount \in WebhookAmounts, currency \in Currencies :
                (/\ WebhookStart(p, sid, txn, outcome, amount, currency)
                 /\ SessionPayment(sid) # 0
                 /\ payments[SessionPayment(sid)].status # "PENDING")
                => /\ res'.outcome = "AlreadyProcessed"
                   /\ pc'[p] = "idle"
                   /\ payments' = payments
                   /\ bookings' = bookings
                   /\ inventory' = inventory]_vars

\* the second delivery for a settled session has just been refused
C7_Witness ==
    /\ res.outcome = "AlreadyProcessed"
    /\ \E k \in PaymentIds :
          /\ payments[k].status \in {"COMPLETED", "FAILED"}
          /\ payments[k].transaction_id # 0
          /\ StatusOf(payments[k].booking_id) \in {"CONFIRMED", "EXPIRED"}

\* C8: a payment leaves PENDING exactly once: every delivery that applies its
\* transition finds the payment still PENDING, and a COMPLETED payment never
\* sits with an EXPIRED booking, nor a FAILED one with a CONFIRMED booking.
C8_SettledExactlyOnce ==
    /\ [][\A p \in Procs :
            pc[p] = "w_commit" /\ pc'[p] = "idle" /\ res'.outcome = "ok"
            => payments[loc[p].payment].status = "PENDING"]_vars
    /\ [](\A k \in PaymentIds :
            /\ ~(payments[k].status = "COMPLETED" /\ StatusOf(payments[k].booking_id) = "EXPIRED")
            /\ ~(payments[k].status = "FAILED" /\ StatusOf(payments[k].booking_id) = "CONFIRMED"))

\* C9: once a cancellation and a successful delivery for the same booking have
\* both finished, the booking is neither CANCELLED with a COMPLETED payment nor
\* CONFIRMED with its nights released.
C9_CancelWebhookConsistent ==
    AllIdle =>
        \A b \in BookingIds :
            /\ ~(/\ StatusOf(b) = "CANCELLED"
                 /\ PaymentOf(b) # 0
                 /\ payments[PaymentOf(b)].status = "COMPLETED")
            /\ ~(/\ StatusOf(b) = "CONFIRMED"
                 /\ \E d \in NightsOf(b) : inventory[d].booked_count < bookings[b].rooms_count)

\* C10: the commit of a cancellation sets the booking CANCELLED with the reason
\* supplied and lowers booked_count by rooms_count, not below 0, on each of its
\* nights, all in one step; the payment becomes REFUNDED if it was COMPLETED and
\* is left alone otherwise.
C10_CancelCommits ==
    [][\A p \in Procs :
          pc[p] = "c_commit" /\ pc'[p] = "idle"
          => LET b == loc[p].b
                 k == PaymentOf(b)
             IN  /\ res'.outcome = "ok"
                 /\ bookings'[b].status = "CANCELLED"
                 /\ bookings'[b].cancellation_reason = loc[p].reason
                 /\ \A d \in Dates :
                        inventory'[d] =
                            IF d \in NightsOf(b)
                            THEN [inventory[d] EXCEPT
                                     !.booked_count = Max(0, @ - bookings[b].rooms_count)]
                            ELSE inventory[d]
                 /\ Len(payments') = Len(payments)
                 /\ k # 0 => payments'[k] =
                        IF payments[k].status = "COMPLETED"
                        THEN [payments[k] EXCEPT !.status = "REFUNDED"]
                        ELSE payments[k]]_vars

\* a CONFIRMED booking with a COMPLETED payment has just been cancelled
C10_Witness ==
    /\ res.outcome = "ok"
    /\ \E b \in BookingIds :
          /\ StatusOf(b) = "CANCELLED"
          /\ bookings[b].cancellation_reason \in Reasons
          /\ PaymentOf(b) # 0
          /\ payments[PaymentOf(b)].status = "REFUNDED"
          /\ \A d \in NightsOf(b) : inventory[d].booked_count = 0

\* rooms held on date d by the first n bookings that are not CANCELLED
RECURSIVE HeldBy(_, _)
HeldBy(n, d) ==
    IF n = 0 THEN 0
    ELSE HeldBy(n - 1, d)
         + (IF d \in NightsOf(n) /\ StatusOf(n) # "CANCELLED"
            THEN bookings[n].rooms_count ELSE 0)

\* C11: no CANCELLED booking still holds capacity: on every date booked_count
\* is at most the rooms of the bookings covering the date that are not CANCELLED,
\* also when a cancellation and a reservation of the same dates interleave.
C11_CancelledHoldsNoCapacity ==
    \A d \in Dates : inventory[d].booked_count <= HeldBy(Len(bookings), d)

\* C12: releasing the nights of a booking twice leaves the ledger as releasing
\* them once does, whatever the other bookings hold on the same dates.
C12_ReleaseIdempotent ==
    \A b \in BookingIds :
        ReleaseApplied(ReleaseApplied(inventory, bookings[b]), bookings[b])
            = ReleaseApplied(inventory, bookings[b])

\* C13: a delivery for a PENDING payment of a PENDING booking sets the payment
\* COMPLETED with the transaction id and the settlement time and the booking
\* CONFIRMED when its outcome is success, and sets the payment FAILED with the
\* transaction id and the booking EXPIRED otherwise; either way it changes
\* nothing else of the two rows, no other row, and no inventory row.
C13_WebhookEffect ==
    [][\A p \in Procs :
          LET k == loc[p].payment
              b == payments[k].booking_id
              success == loc[p].outcome = "success"
          IN  (/\ pc[p] = "w_commit" /\ pc'[p] = "idle"
               /\ payments[k].status = "PENDING"
               /\ StatusOf(b) = "PENDING")
              => /\ res'.outcome = "ok"
                 /\ \E now \in Times :
                       payments' = [payments EXCEPT ![k] =
                          IF success
                          THEN [payments[k] EXCEPT !.status = "COMPLETED",
                                                   !.transaction_id = loc[p].transaction_id,
                                                   !.paid_at = now]
                          ELSE [payments[k] EXCEPT !.status = "FAILED",
                                                   !.transaction_id = loc[p].transaction_id]]
                 /\ bookings' = [bookings EXCEPT ![b].status =
                                    IF success THEN "CONFIRMED" ELSE "EXPIRED"]
                 /\ inventory' = inventory]_vars

\* a failed payment has just expired its booking, whose nights stay booked
C13_Witness ==
    /\ res.outcome = "ok"
    /\ \E k \in PaymentIds :
          LET b == payments[k].booking_id
          IN  /\ payments[k].status = "FAILED"
              /\ payments[k].transaction_id # 0
              /\ payments[k].paid_at = 0
              /\ StatusOf(b) = "EXPIRED"
              /\ \A d \in NightsOf(b) : inventory[d].booked_count >= bookings[b].rooms_count

\* C14: a booking never has more than one payment, also when two initiations
\* of the same booking both found no payment before either committed.
C14_AtMostOnePayment ==
    \A b \in BookingIds : Cardinality(PaymentsOf(b)) <= 1

\* two initiations raced: the one that committed second was turned down by the
\* unique constraint, the booking has the payment of the first
C14_Witness ==
    /\ res.outcome = "IntegrityError"
    /\ \E b \in BookingIds :
          /\ StatusOf(b) = "PENDING"
          /\ Cardinality(PaymentsOf(b)) = 1
          /\ payments[PaymentOf(b)].status = "PENDING"

\* C15: an initiation that finds a PENDING payment on its PENDING booking ends
\* there: it returns the session id and the amount of that payment, adds no
\* payment, and changes neither the payment nor the booking (its
\* payment_session_id included).
C15_InitiateResumes ==
    [][\A p \in Procs :
          LET b == loc[p].b
              k == PaymentOf(b)
          IN  (/\ pc[p] = "i_payment" /\ pc'[p] # "i_payment"
               /\ StatusOf(b) = "PENDING"
               /\ k # 0 /\ payments[k].status = "PENDING")
              => /\ pc'[p] = "idle"
                 /\ res' = [outcome |-> "ok", date |-> 0,
                            payment_session_id |-> payments[k].payment_session_id,
                            amount |-> payments[k].amount]
                 /\ payments' = payments
                 /\ bookings' = bookings
                 /\ inventory' = inventory]_vars

\* a second initiation has passed the status check of a booking whose PENDING
\* payment carries the session the booking points to
C15_Witness ==
    \E p \in Procs :
        /\ pc[p] = "i_payment"
        /\ StatusOf(loc[p].b) = "PENDING"
        /\ PaymentOf(loc[p].b) # 0
        /\ payments[PaymentOf(loc[p].b)].status = "PENDING"
        /\ payments[PaymentOf(loc[p].b)].payment_session_id = bookings[loc[p].b].payment_session_id

\* C16: an initiation for a booking that is not PENDING is refused with
\* InvalidState: it adds no payment and changes no booking and no payment.
C16_InitiateOnlyPending ==
    [][\A p \in Procs, b \in BookingIds :
          InitiateStart(p, b) /\ StatusOf(b) # "PENDING"
          => /\ res'.outcome = "InvalidState"
             /\ pc'[p] = "idle"
             /\ payments' = payments
             /\ bookings' = bookings
             /\ inventory' = inventory]_vars

\* an initiation has just been refused while no booking is in a status in which
\* a cancellation is refused: a CONFIRMED booking has the COMPLETED payment that
\* confirmed it
C16_Witness ==
    /\ res.outcome = "InvalidState"
    /\ \A b \in BookingIds : StatusOf(b) \notin {"CANCELLED", "CHECKED_OUT"}
    /\ \E b \in BookingIds :
          /\ StatusOf(b) = "CONFIRMED"
          /\ PaymentOf(b) # 0
          /\ payments[PaymentOf(b)].status = "COMPLETED"

\* C17: the amount of a payment is the total_price of its booking, and the
\* total_price of a booking never changes once the booking exists, whatever
\* nightly prices an administrative edit sets before or after the initiation.
C17_AmountIsTotalPrice ==
    /\ [](\A k \in PaymentIds : payments[k].amount = bookings[payments[k].booking_id].total_price)
    /\ [][\A b \in BookingIds : bookings'[b].total_price = bookings[b].total_price]_vars

\* a payment exists for a booking whose nights no longer cost what the booking
\* was priced at
C17_Witness ==
    \E k \in PaymentIds :
        LET bk == bookings[payments[k].booking_id]
        IN  /\ payments[k].amount = bk.total_price
            /\ edits > 0
            /\ bk.total_price #
                  PriceOfNights(bk.check_in_date, bk.check_out_date, bk.rooms_count)

\* C18: every PENDING booking eventually leaves PENDING, also when no payment
\* is ever initiated for it and no webhook is ever delivered.
C18_PendingEventuallyExpires ==
    \A b \in 1..MaxBookings :
        (IF b \in BookingIds THEN StatusOf(b) = "PENDING" ELSE FALSE)
        ~> (IF b \in BookingIds THEN StatusOf(b) # "PENDING" ELSE FALSE)

\* C19: an administrative edit that supplies an available_count below the
\* booked_count of an existing row it covers is refused with InvalidCapacity
\* and leaves the ledger as it was.
C19_EditBelowCommittedRefused ==
    [][\A p \in Procs :
          LET l == loc[p]
          IN  /\ (/\ pc[p] = "u_commit" /\ pc'[p] = "idle"
                  /\ inventory[l.date].exists
                  /\ l.available_count # Unset
                  /\ l.available_count < inventory[l.date].booked_count)
                 => res'.outcome = "InvalidCapacity" /\ inventory' = inventory
              /\ (/\ pc[p] = "k_commit" /\ pc'[p] = "idle"
                  /\ l.available_count # Unset
                  /\ \E d \in l.start_date .. l.end_date :
                        /\ inventory[d].exists
                        /\ l.available_count < inventory[d].booked_count)
                 => res'.outcome = "InvalidCapacity" /\ inventory' = inventory]_vars

\* C20: add_guests is refused with InvalidState for a booking that is neither
\* PENDING nor CONFIRMED, and with NotFound when one of the requested guests is
\* not a guest of the requesting user; a refused request attaches none of the
\* requested guests.
C20_AddGuestsRefused ==
    [][\A p \in Procs :
          /\ \A b \in BookingIds, guest_ids \in GuestIds :
                AddGuestsStart(p, b, guest_ids) /\ StatusOf(b) \notin {"PENDING", "CONFIRMED"}
                => /\ pc'[p] = "idle"
                   /\ res'.outcome = "InvalidState"
                   /\ bookings' = bookings
          /\ (/\ pc[p] = "g_guests"
              /\ \E i \in DOMAIN loc[p].guest_ids : loc[p].guest_ids[i] \notin OwnGuests)
             => /\ pc'[p] = "idle"
                /\ res'.outcome = "NotFound"
                /\ bookings' = bookings]_vars

\* a request naming a guest of another user has just been refused for a
\* booking that already has a guest from an earlier request
C20_Witness ==
    /\ res = [outcome |-> "NotFound", date |-> 0, detail |-> "Some guests not found"]
    /\ \E b \in BookingIds :
          /\ StatusOf(b) \in {"PENDING", "CONFIRMED"}
          /\ bookings[b].guests = {1}

C22_ReservePreconditions ==
    [][\A p \in Procs, ci \in 0..MaxDate, co \in 1..(MaxDate + 1), rc \in 1..MaxCount,
          hotelActive \in BOOLEAN, roomInHotel \in BOOLEAN :
          (/\ InitBookingStart(p, ci, co, rc, hotelActive, roomInHotel)
           /\ (ci >= co \/ ci < Today \/ ~hotelActive \/ ~roomInHotel))
          => /\ pc'[p] = "idle"
             /\ res'.outcome = IF ci >= co \/ ci < Today THEN "InvalidRequest" ELSE "NotFound"
             /\ inventory' = inventory
             /\ bookings' = bookings
             /\ payments' = payments]_vars

\* a reservation with bad dates has just been refused while an earlier booking
\* holds rooms
C22_Witness ==
    /\ res.outcome = "InvalidRequest"
    /\ \E b \in BookingIds :
          /\ StatusOf(b) = "PENDING"
          /\ \A d \in NightsOf(b) : inventory[d].booked_count = bookings[b].rooms_count

\* nights of the reservation l that have no inventory row, or too few rooms left
NoRecordNights(l) ==
    {d \in Nights(l.check_in_date, l.check_out_date) : ~inventory[d].exists}

ShortNights(l) ==
    {d \in Nights(l.check_in_date, l.check_out_date) :
        /\ inventory[d].exists
        /\ inventory[d].available_count - inventory[d].booked_count < l.rooms_count}

FirstOf(S) == CHOOSE d \in S : \A e \in S : d <= e

\* C23: a reservation with valid preconditions gets as far as its commit, and
\* succeeds, exactly when every night has a row with at least rooms_count rooms
\* left; otherwise it is refused with the error of its earliest failing night,
\* which the error names: NoInventory if that night has no row,
\* InsufficientCapacity if it has too few rooms left.
C23_ReserveOutcome ==
    [][\A p \in Procs :
          LET l == loc[p]
              failing == NoRecordNights(l) \cup ShortNights(l)
          IN  /\ pc'[p] = "r_commit" => (pc[p] \in {"r_check", "r_commit"} /\ failing = {})
              /\ (pc[p] = "r_commit" /\ pc'[p] = "idle") => res'.outcome = "ok"
              /\ (pc[p] = "r_check" /\ pc'[p] = "idle")
                 => /\ failing # {}
                    /\ res' = [outcome |-> IF FirstOf(failing) \in NoRecordNights(l)
                                           THEN "NoInventory" ELSE "InsufficientCapacity",
                               date |-> FirstOf(failing)]]_vars

\* C23 as stated: a refused reservation gets NoInventory whenever any of its
\* nights has no row, and InsufficientCapacity only when every night has a row.
C23_NoInventoryFirst ==
    [][\A p \in Procs :
          LET l == loc[p]
          IN  /\ pc'[p] = "r_commit"
                 => (pc[p] \in {"r_check", "r_commit"}
                     /\ NoRecordNights(l) \cup ShortNights(l) = {})
              /\ (pc[p] = "r_commit" /\ pc'[p] = "idle") => res'.outcome = "ok"
              /\ (pc[p] = "r_check" /\ pc'[p] = "idle")
                 => /\ NoRecordNights(l) \cup ShortNights(l) # {}
                    /\ res'.outcome = IF NoRecordNights(l) # {}
                                      THEN "NoInventory" ELSE "InsufficientCapacity"]_vars

\* a reservation of two nights is about to be checked: its first night has too
\* few rooms left, its second night has no row
C23_Witness ==
    \E p \in Procs :
        /\ pc[p] = "r_check"
        /\ loc[p].i = 0
        /\ loc[p].check_in_date \in ShortNights(loc[p])
        /\ loc[p].check_in_date + 1 \in NoRecordNights(loc[p])

\* C24: no operation removes a booking: every booking of a state is a booking
\* of the next state, also when the room it is for is deleted.
C24_BookingsNeverRemoved ==
    [][\A b \in BookingIds : b \in 1..Len(bookings')]_vars

\* C25: an administrative edit of existing inventory rows (update_inventory,
\* bulk_update_inventory) leaves booked_count of every row unchanged, changes
\* available_count only if one was supplied and then only to the supplied value,
\* changes price only if one was supplied and then only to the supplied value,
\* leaves the rows of the dates it does not name unchanged, and touches no
\* booking and no payment.
EditFrame(old, new, ac, price) ==
    /\ new.exists
    /\ new.booked_count = old.booked_count
    /\ new.available_count \in {old.available_count} \cup ({ac} \ {Unset})
    /\ new.price \in {old.price} \cup ({price} \ {Unset})

C25_EditFrame ==
    [][\A p \in Procs :
          /\ (pc[p] = "u_commit" /\ pc'[p] = "idle") =>
                /\ \A d \in Dates : d # loc[p].date => inventory'[d] = inventory[d]
                /\ inventory[loc[p].date].exists =>
                      EditFrame(inventory[loc[p].date], inventory'[loc[p].date],
                                loc[p].available_count, loc[p].price)
                /\ UNCHANGED <<bookings, payments, room>>
          /\ (pc[p] = "k_commit" /\ pc'[p] = "idle") =>
                /\ \A d \in Dates :
                      IF d \in loc[p].start_date .. loc[p].end_date
                      THEN inventory[d].exists =>
                              EditFrame(inventory[d], inventory'[d],
                                        loc[p].available_count, loc[p].price)
                      ELSE inventory'[d] = inventory[d]
                /\ UNCHANGED <<bookings, payments, room>>
     ]_vars

\* an edit that supplies only a price is about to commit on a row whose
\* booked_count moved after the edit loaded it
C25_Witness ==
    \E p \in Procs :
        /\ pc[p] = "u_commit"
        /\ loc[p].loaded.exists
        /\ loc[p].available_count = Unset
        /\ loc[p].price # Unset
        /\ loc[p].price # inventory[loc[p].date].price
        /\ inventory[loc[p].date].booked_count > 0
        /\ loc[p].loaded.booked_count # inventory[loc[p].date].booked_count

\* C26: ledger conservation: whenever no request is in progress, booked_count of
\* every inventory row equals the sum of rooms_count over the bookings covering
\* its date whose status is PENDING, CONFIRMED or EXPIRED.
C26_LedgerConservation ==
    AllIdle =>
        \A d \in Dates :
            inventory[d].exists => inventory[d].booked_count = HeldBy(Len(bookings), d)

\* C27: whenever no request is in progress, a CONFIRMED booking has a COMPLETED
\* payment, a COMPLETED payment belongs to a CONFIRMED booking, and a REFUNDED
\* payment belongs to a CANCELLED booking.
C27_StatusPaymentPairing ==
    AllIdle =>
        /\ \A b \in BookingIds :
              StatusOf(b) = "CONFIRMED" =>
                  \E i \in PaymentsOf(b) : payments[i].status = "COMPLETED"
        /\ \A i \in PaymentIds :
              /\ payments[i].status = "COMPLETED" =>
                    StatusOf(payments[i].booking_id) = "CONFIRMED"
              /\ payments[i].status = "REFUNDED" =>
                    StatusOf(payments[i].booking_id) = "CANCELLED"

\* a booking that was paid and then cancelled: its payment is REFUNDED
C27_Witness ==
    /\ AllIdle
    /\ \E i \in PaymentIds :
          /\ payments[i].status = "REFUNDED"
          /\ StatusOf(payments[i].booking_id) = "CANCELLED"
    /\ \E b \in BookingIds : StatusOf(b) = "CONFIRMED"

\* C28: no booking is ever CHECKED_IN or CHECKED_OUT: the status of every
\* booking is PENDING, CONFIRMED, CANCELLED or EXPIRED in every reachable state.
C28_NeverCheckedIn ==
    \A b \in BookingIds : StatusOf(b) \in {"PENDING", "CONFIRMED", "CANCELLED", "EXPIRED"}

\* a paid booking whose stay starts today, next to a booking that expired
C28_Witness ==
    /\ AllIdle
    /\ \E b \in BookingIds :
          StatusOf(b) = "CONFIRMED" /\ bookings[b].check_in_date = Today
    /\ \E b \in BookingIds : StatusOf(b) = "EXPIRED"

\* what a delivery for payment k with transaction id txn and the given outcome
\* leaves behind, written without the amount and the currency of the payload
SettledPayments(k, txn, outcome) ==
    [payments EXCEPT ![k] =
        [payments[k] EXCEPT
            !.status = IF outcome = "success" THEN "COMPLETED" ELSE "FAILED",
            !.transaction_id = txn,
            !.paid_at = IF outcome = "success" THEN CHOOSE now \in Times : TRUE ELSE @]]

SettledBookings(k, outcome) ==
    [bookings EXCEPT ![payments[k].booking_id].status =
        IF outcome = "success" THEN "CONFIRMED" ELSE "EXPIRED"]

\* C29: the state a webhook delivery produces is a function of the state it
\* finds and of its session id, transaction id and outcome alone: whatever
\* amount and currency the payload states, equal to those of the payment or
\* not, an accepted delivery leaves exactly SettledPayments and SettledBookings
\* with the amount of the payment as it was, and a delivery is refused or
\* accepted at its start by the session's payment alone.
C29_AmountIgnored ==
    [][\A p \in Procs :
          /\ (pc[p] = "w_commit" /\ pc'[p] = "idle") =>
                LET l == loc[p]
                IN  /\ res'.outcome = "ok"
                    /\ payments' = SettledPayments(l.payment, l.transaction_id, l.outcome)
                    /\ bookings' = SettledBookings(l.payment, l.outcome)
                    /\ payments'[l.payment].amount = payments[l.payment].amount
                    /\ inventory' = inventory
          /\ \A sid \in 1..MaxBookings, txn \in TxnIds, outcome \in Outcomes,
                amount \in WebhookAmounts, currency \in Currencies :
                WebhookStart(p, sid, txn, outcome, amount, currency) =>
                   /\ UNCHANGED <<payments, bookings, inventory>>
                   /\ pc'[p] = IF SessionPayment(sid) # 0
                                  /\ payments[SessionPayment(sid)].status = "PENDING"
                               THEN "w_booking" ELSE "idle"
     ]_vars

\* a success delivery is about to commit with an amount that is not the
\* payment's and a currency that is not the payment's
C29_Witness ==
    \E p \in Procs :
        /\ pc[p] = "w_commit"
        /\ loc[p].outcome = "success"
        /\ loc[p].amount # payments[loc[p].payment].amount
        /\ loc[p].currency # "USD"
        /\ StatusOf(payments[loc[p].payment].booking_id) = "PENDING"

\* C30: an administrative edit that finds no inventory row for a date creates
\* one with booked_count 0 and with available_count equal to the supplied
\* value whenever one is supplied, 0 included, and equal to the room's
\* total_count only when none is supplied.
CreatedRow(new, ac) ==
    /\ new.booked_count = 0
    /\ new.available_count = IF ac # Unset THEN ac ELSE room.total_count

C30_LazyCreate ==
    [][\A p \in Procs :
          /\ (pc[p] = "u_commit" /\ pc'[p] = "idle") =>
                LET d == loc[p].date
                IN  (~inventory[d].exists /\ inventory'[d].exists) =>
                        CreatedRow(inventory'[d], loc[p].available_count)
          /\ (pc[p] = "k_commit" /\ pc'[p] = "idle") =>
                \A d \in loc[p].start_date .. loc[p].end_date :
                    (~inventory[d].exists /\ inventory'[d].exists) =>
                        CreatedRow(inventory'[d], loc[p].available_count)
     ]_vars

====
